---- MODULE Spec2Model ----
(***************************************************************************)
(* One GameSession of app/services/game_manager.py, the tasks it owns      *)
(* (_main_loop, _stream_tts_for_line, _broadcast_listeners_loop), its      *)
(* LiveTranscription, and the websocket handlers of                        *)
(* app/api/v1/endpoints/game.py that drive it, on one asyncio event loop.  *)
(* One action is one run of a coroutine from a suspension point (an await  *)
(* that really yields) to the next one; code between two suspension points *)
(* is atomic, as it is on a single-threaded event loop.  The state lock is *)
(* never held across an await, so it is never contended and every          *)
(* `async with self._state_lock` block runs without yielding.              *)
(***************************************************************************)
EXTENDS Integers, Sequences, FiniteSets, TLC

\* ---- bounds -------------------------------------------------------------
NumConns == 2        \* websocket connections that use the mission id
MaxLines == 2        \* dialogue lines the Dialogue Source returns in total
MaxBatch == 2        \* lines in one batch
MaxCmds == 3         \* client commands received in total
MaxFrags == 1        \* transcript fragments received per listening period


\* bounds of the endpoint model
NumWs == 4           \* connections accepted in total
MaxSessions == 3     \* GameSession objects constructed in total
MaxStreamed == 1     \* lines one session streams to the end

Conns == 1..NumConns
Ws == 1..NumWs
Sess == 1..MaxSessions
None == 0
Frags == {"a"}
Texts == {"d"}

IDLE == "IDLE"
SPEAKING_TTS == "SPEAKING_TTS"
LISTENING_TO_USER == "LISTENING_TO_USER"
SessionState == {IDLE, SPEAKING_TTS, LISTENING_TO_USER}

VARIABLES
    state,          \* GameSession._state
    is_active,      \* GameSession._is_active
    queue,          \* GameSession.dialogue_queue: sequence of lines [id, stale]
    history,        \* GameSession.dialogue_history: sequence of turns
    mainPc,         \* _main_task: none, gen, tts, sleep, done, cancelled, failed
    mainCancel,     \* a CancelledError is pending for _main_task
    ttsLive,        \* the _stream_tts_for_line tasks that are not done
    tts_task,       \* GameSession._tts_task: [id, res], res in none, live, done, cancelled
    bcastPc,        \* _listener_broadcast_task: none, wait, done, cancelled
    bcastCancel,    \* a CancelledError is pending for the broadcast task
    tr_active,      \* LiveTranscription._is_active
    dgOpen,         \* the Deepgram connection is started and not yet finished
    transcript,     \* LiveTranscription.full_transcript: sequence of fragments
    registered,     \* mission_id in manager.active_connections
    inSessions,     \* mission_id in game_sessions
    hpc,            \* position of each websocket handler
    hcap,           \* tasks_to_cancel of a stop() in progress: [main, tts, bcast]
    nextId,         \* identity of the next line the Dialogue Source returns
    cmds,           \* client commands received so far
    \* ---- history variables (read by no action guard) ----
    genStale,       \* a start_speech or user_dialogue came after the running
                    \* generate_dialogue call began
    last,           \* the operation that returned last
    intr,           \* start_speech hit a running synthesis; no stop_speech, user_dialogue, stop() since
    sendFailed,     \* a chunk was to be sent while the connection was not registered
    okIds,          \* lines whose TTS task ran to the end of its stream
    cancelledIds,   \* lines whose TTS task was cancelled before it was done
    hquiet,         \* the transcriber was not started again while this stop()
                    \* awaited its finish()
    hmark,          \* of a stop_user_speech that awaits finish(): the length the
                    \* history had when the command was received
    dgAudio,        \* audio chunks handed to LiveTranscription.send
    \* ---- the endpoint model (EndpointSpec): every connection and session of
    \* ---- the mission id, the sessions reduced to their tasks ----
    active_connections, \* manager.active_connections.get(mission_id): a connection or None
    game_sessions,      \* game_sessions.get(mission_id): a session or None
    wpc,            \* position of each connection's websocket_endpoint call
    wsess,          \* its local variable `session`
    sActive,        \* of each session: _is_active
    sMain,          \* its _main_task: none, idle, tts, ended
    sCancel,        \* a cancellation is pending for _main_task or the TTS task it awaits
    sBcast,         \* its _listener_broadcast_task: none, run, cancelling, ended
    sTr,            \* its _live_transcriber._is_active
    sLines,         \* lines it has streamed to the end
    errSent,        \* 'Mission not ready.' frames its start() has sent
    frames,         \* kinds of text frames the server has sent to a client
    nSess,          \* sessions constructed so far
    nConn,          \* connections accepted so far
    \* ---- the listener count of one session (ListenerSpec) ----
    initial_listeners,  \* GameSession.initial_listeners
    awakened,       \* GameSession._awakened_listeners: [kind, v], v in tenths
    lsSent,         \* the awakened_listeners values sent so far
    \* ---- one LiveTranscription (TranscriberSpec) ----
    lt_active,      \* LiveTranscription._is_active
    lt_open,        \* its Deepgram connection is started and not yet finished
    full_transcript,\* LiveTranscription.full_transcript: a string, as its characters
    ltStopping,     \* how many stop() calls are suspended in dg_connection.finish()
    ltResult,       \* what each stop() returned, with the fragments heard by then
    ltHeard,        \* history variable: the fragments received since the last start
    ltEvents,       \* transcript events received so far
    \* ---- the state lock of one session, statement by statement (LockSpec) ----
    lkState,        \* GameSession._state
    lkLocked,       \* asyncio.Lock._locked of _state_lock
    lkWaiters,      \* asyncio.Lock._waiters: the tasks suspended in acquire()
    lkHolders,      \* history variable: the tasks inside an `async with` block
    lkRun,          \* the task the event loop is running, or "none"
    lkPc,           \* where each task is: [op, blk]
    lkQueue,        \* number of lines on dialogue_queue
    lkTts,          \* the TTS task: [live, cancel, res]
    lkTr,           \* LiveTranscription._is_active
    lkCmds,         \* commands received so far
    \* ---- the mission records and their stage 2 tasks (MissionSpec) ----
    msStatus,       \* the status stored for each mission ("absent": no record)
    msPrompt,       \* the dialogue_generator_prompt stored for each mission
    msBg,           \* where generate_and_store_unified_prompt of each mission is
    msDyn,          \* its dynamic_prompt
    msStarts,       \* GameSession.start() calls made for each mission
    msLoops         \* history variable: the statuses start() read when it started a loop

gsVars == <<state, is_active, queue, history, mainPc, mainCancel, ttsLive, tts_task,
            bcastPc, bcastCancel, tr_active, dgOpen, transcript, registered, inSessions,
            hpc, hcap, nextId, cmds, genStale, last, intr, sendFailed, okIds, cancelledIds,
            hquiet, hmark, dgAudio>>

epVars == <<active_connections, game_sessions, wpc, wsess, sActive, sMain, sCancel,
            sBcast, sTr, sLines, errSent, frames, nSess, nConn>>

lsVars == <<initial_listeners, awakened, lsSent>>

ltVars == <<lt_active, lt_open, full_transcript, ltStopping, ltResult, ltHeard, ltEvents>>

lkVars == <<lkState, lkLocked, lkWaiters, lkHolders, lkRun, lkPc, lkQueue, lkTts, lkTr,
            lkCmds>>

msVars == <<msStatus, msPrompt, msBg, msDyn, msStarts, msLoops>>

auxVars == <<lsVars, ltVars, lkVars, msVars>>

vars == <<gsVars, epVars, auxVars>>

\* what no step of the one-session model changes
restVars == <<dgAudio, epVars, auxVars, hmark>>

sessVars == <<state, is_active, queue, history>>
mainVars == <<mainPc, mainCancel, nextId>>
ttsVars == <<ttsLive, tts_task>>
bcastVars == <<bcastPc, bcastCancel>>
trVars == <<tr_active, dgOpen, transcript>>
regVars == <<registered, inSessions>>
hVars == <<hpc, hcap, cmds>>
logVars == <<genStale, last, intr, sendFailed, okIds, cancelledIds, hquiet>>

\* ---- helpers ------------------------------------------------------------
TaskDone(pc) == pc \in {"done", "cancelled", "failed"}

Other == "other"

NoCap == [main |-> FALSE, tts |-> 0, bcast |-> FALSE]

LiveIds == {ttsLive[i].id : i \in 1..Len(ttsLive)}

\* Task.cancel() on the TTS task with identity id: a no-op when the task is done.
CancelTtsNoEffect(live, id) == live
CancelTts(live, id) ==
    [i \in 1..Len(live) |-> IF live[i].id = id THEN [live[i] EXCEPT !.cancel = TRUE]
                                               ELSE live[i]]

RemoveAt(s, i) == SubSeq(s, 1, i - 1) \o SubSeq(s, i + 1, Len(s))

UserTurn(text) == [k |-> "U", v |-> text]
SpokenTurn(id) == [k |-> "S", v |-> <<id>>]

SpokenIds(h) == {h[i].v[1] : i \in {j \in 1..Len(h) : h[j].k = "S"}}

\* No connection has been accepted and no session constructed.
EndpointInit ==
    /\ active_connections = None
    /\ game_sessions = None
    /\ wpc = [w \in Ws |-> "new"]
    /\ wsess = [w \in Ws |-> None]
    /\ sActive = [s \in Sess |-> TRUE]
    /\ sMain = [s \in Sess |-> "none"]
    /\ sCancel = [s \in Sess |-> FALSE]
    /\ sBcast = [s \in Sess |-> "none"]
    /\ sTr = [s \in Sess |-> FALSE]
    /\ sLines = [s \in Sess |-> 0]
    /\ errSent = [s \in Sess |-> 0]
    /\ frames = {}
    /\ nSess = 0
    /\ nConn = 0

\* the score as Python stores it: a finite float (v, in tenths), inf or nan
Score(kind, v) == [kind |-> kind, v |-> v]

\* The listener count after __init__: initial_listeners = 0, _awakened_listeners = 0.0.
ListenerInit ==
    /\ initial_listeners = 0
    /\ awakened = Score("finite", 0)
    /\ lsSent = <<>>

\* LiveTranscription.__init__
TranscriberInit ==
    /\ lt_active = FALSE
    /\ lt_open = FALSE
    /\ full_transcript = <<>>
    /\ ltStopping = 0
    /\ ltResult = <<>>
    /\ ltHeard = <<>>
    /\ ltEvents = 0

MaxMissions == 2     \* missions created
MaxStarts == 2       \* start() calls per mission

Missions == 1..MaxMissions

\* None, as the value of an optional string
NoText == "None"

\* No mission has been created.
MissionInit ==
    /\ msStatus = [m \in Missions |-> "absent"]
    /\ msPrompt = [m \in Missions |-> NoText]
    /\ msBg = [m \in Missions |-> "none"]
    /\ msDyn = [m \in Missions |-> NoText]
    /\ msStarts = [m \in Missions |-> 0]
    /\ msLoops = [m \in Missions |-> {}]

\* the tasks of the lock model: the main loop and two command handlers
LkHandlers == {"h1", "h2"}
LkTasks == {"main"} \cup LkHandlers

LkAt(op, blk) == [op |-> op, blk |-> blk]

\* The session after start(): the main loop task is created, the handlers
\* are suspended in receive, the lock is free.
LockInit ==
    /\ lkState = IDLE
    /\ lkLocked = FALSE
    /\ lkWaiters = {}
    /\ lkHolders = {}
    /\ lkRun = "none"
    /\ lkPc = [t \in LkTasks |-> IF t = "main" THEN LkAt("wait", "-") ELSE LkAt("recv", "-")]
    /\ lkQueue = 0
    /\ lkTts = [live |-> FALSE, cancel |-> FALSE, res |-> "none"]
    /\ lkTr = FALSE
    /\ lkCmds = 0

\* The session after __init__, its creating handler in start().
SessionInit ==
    /\ state = IDLE
    /\ is_active = TRUE
    /\ queue = <<>>
    /\ history = <<>>
    /\ mainPc = "none"
    /\ mainCancel = FALSE
    /\ ttsLive = <<>>
    /\ tts_task = [id |-> 0, res |-> "none"]
    /\ bcastPc = "none"
    /\ bcastCancel = FALSE
    /\ tr_active = FALSE
    /\ dgOpen = FALSE
    /\ transcript = <<>>
    /\ registered = TRUE
    /\ inSessions = TRUE
    /\ hpc = [c \in Conns |-> IF c = 1 THEN "start" ELSE "unconnected"]
    /\ hcap = [c \in Conns |-> NoCap]
    /\ nextId = 1
    /\ cmds = 0
    /\ genStale = FALSE
    /\ last = Other
    /\ intr = FALSE
    /\ sendFailed = FALSE
    /\ okIds = {}
    /\ cancelledIds = {}
    /\ hquiet = [c \in Conns |-> TRUE]
    /\ hmark = [c \in Conns |-> 0]
    /\ dgAudio = 0

Init ==
    /\ SessionInit
    /\ EndpointInit
    /\ ListenerInit
    /\ TranscriberInit
    /\ LockInit
    /\ MissionInit


\* ---- GameSession.start (handler 1 constructed the session and awaits start()) ----
\* The mission is loaded; ready is whether it has a dialogue_generator_prompt.
StartReturn(c, ready) ==
    /\ hpc[c] = "start"
    /\ hpc' = [hpc EXCEPT ![c] = "recv"]
    /\ IF ready
         THEN /\ mainPc' = "sleep"
              /\ bcastPc' = "wait"
         ELSE UNCHANGED <<mainPc, bcastPc>>
    /\ last' = Other
    /\ UNCHANGED <<sessVars, mainCancel, nextId, ttsVars, bcastCancel, trVars,
                   regVars, hcap, cmds, genStale, intr, sendFailed, okIds,
                   cancelledIds, hquiet>>
    /\ UNCHANGED restVars

\* ---- GameSession._main_loop ----------------------------------------------
\* sleep: the loop task is suspended at asyncio.sleep or was just created (its
\* first step and its step after the sleep begin alike at the while test)
MainRunnable == mainPc = "sleep"

\* A CancelledError reaches the loop at the sleep, at the to_thread call or
\* before its first step: nothing catches it there.
MainCancelled ==
    /\ mainPc \in {"sleep", "gen"}
    /\ mainCancel
    /\ mainPc' = "cancelled"
    /\ mainCancel' = FALSE
    /\ last' = Other
    /\ UNCHANGED <<sessVars, nextId, ttsVars, bcastVars, trVars, regVars, hVars,
                   genStale, intr, sendFailed, okIds, cancelledIds, hquiet>>
    /\ UNCHANGED restVars

\* while self._is_active: false
MainExit ==
    /\ MainRunnable /\ ~mainCancel
    /\ ~is_active
    /\ mainPc' = "done"
    /\ last' = Other
    /\ UNCHANGED <<sessVars, mainCancel, nextId, ttsVars, bcastVars, trVars,
                   regVars, hVars, genStale, intr, sendFailed, okIds,
                   cancelledIds, hquiet>>
    /\ UNCHANGED restVars

\* state is not IDLE: straight to the sleep
MainNotIdle ==
    /\ MainRunnable /\ ~mainCancel
    /\ is_active
    /\ state # IDLE
    /\ mainPc' = "sleep"
    /\ last' = Other
    /\ UNCHANGED <<sessVars, mainCancel, nextId, ttsVars, bcastVars, trVars,
                   regVars, hVars, genStale, intr, sendFailed, okIds,
                   cancelledIds, hquiet>>
    /\ UNCHANGED restVars

\* IDLE and the queue is empty: set SPEAKING_TTS and call generate_dialogue in a
\* thread, with the history as it is now.
MainGeneratePrefetch ==
    /\ MainRunnable /\ ~mainCancel
    /\ is_active
    /\ state = IDLE
    /\ state' = SPEAKING_TTS
    /\ mainPc' = "gen"
    /\ genStale' = FALSE
    /\ last' = Other
    /\ UNCHANGED <<is_active, queue, history, mainCancel, nextId, ttsVars, bcastVars,
                   trVars, regVars, hVars, intr, sendFailed, okIds,
                   cancelledIds, hquiet>>
    /\ UNCHANGED restVars
MainGenerate ==
    /\ MainRunnable /\ ~mainCancel
    /\ is_active
    /\ state = IDLE
    /\ queue = <<>>
    /\ state' = SPEAKING_TTS
    /\ mainPc' = "gen"
    /\ genStale' = FALSE
    /\ last' = Other
    /\ UNCHANGED <<is_active, queue, history, mainCancel, nextId, ttsVars, bcastVars,
                   trVars, regVars, hVars, intr, sendFailed, okIds,
                   cancelledIds, hquiet>>
    /\ UNCHANGED restVars

Batch(first, n, stale) == [i \in 1..n |-> [id |-> first + i - 1, stale |-> stale]]

\* generate_dialogue returned n lines (n = 0: an empty dialogues list): they are
\* put on the queue and the state is set to IDLE, whatever it was.
MainGenReturnNoSleep(n) ==
    /\ mainPc = "gen" /\ ~mainCancel
    /\ nextId + n - 1 <= MaxLines
    /\ queue' = queue \o Batch(nextId, n, genStale)
    /\ nextId' = nextId + n
    /\ state' = IF n = 0 THEN SPEAKING_TTS ELSE IDLE
    /\ mainPc' = IF n = 0 THEN "gen" ELSE "sleep"
    /\ last' = IF n = 0 THEN "gen_empty" ELSE Other
    /\ UNCHANGED <<is_active, history, mainCancel, ttsVars, bcastVars, trVars,
                   regVars, hVars, genStale, intr, sendFailed, okIds,
                   cancelledIds, hquiet>>
    /\ UNCHANGED restVars
MainGenReturn(n) ==
    /\ mainPc = "gen" /\ ~mainCancel
    /\ nextId + n - 1 <= MaxLines
    /\ queue' = queue \o Batch(nextId, n, genStale)
    /\ nextId' = nextId + n
    /\ state' = IDLE
    /\ mainPc' = "sleep"
    /\ last' = IF n = 0 THEN "gen_empty" ELSE Other
    /\ UNCHANGED <<is_active, history, mainCancel, ttsVars, bcastVars, trVars,
                   regVars, hVars, genStale, intr, sendFailed, okIds,
                   cancelledIds, hquiet>>
    /\ UNCHANGED restVars

\* generate_dialogue raised LLMServiceError: the loop has no handler for it.
MainGenRaise ==
    /\ mainPc = "gen" /\ ~mainCancel
    /\ mainPc' = "failed"
    /\ last' = Other
    /\ UNCHANGED <<sessVars, mainCancel, nextId, ttsVars, bcastVars, trVars,
                   regVars, hVars, genStale, intr, sendFailed, okIds,
                   cancelledIds, hquiet>>
    /\ UNCHANGED restVars

\* dialogue_queue.get(): the position of the line taken (asyncio.Queue is FIFO)
QueueGetLifo(q) == Len(q)
QueueGet(q) == 1

\* where the loop is after create_task: it awaits the task
AfterSpeakNoAwait == "sleep"
AfterSpeak == "tts"

\* IDLE and the queue is not empty: set SPEAKING_TTS, take the next line, start
\* its TTS task and await it.
MainSpeak ==
    /\ MainRunnable /\ ~mainCancel
    /\ is_active
    /\ state = IDLE
    /\ queue # <<>>
    /\ LET line == queue[QueueGet(queue)] IN
         /\ queue' = RemoveAt(queue, QueueGet(queue))
         /\ ttsLive' = Append(ttsLive, [id |-> line.id, stale |-> line.stale,
                                        st |-> "new", cancel |-> FALSE])
         /\ tts_task' = [id |-> line.id, res |-> "live"]
    /\ state' = SPEAKING_TTS
    /\ mainPc' = AfterSpeak
    /\ last' = Other
    /\ UNCHANGED <<is_active, history, mainCancel, nextId, bcastVars, trVars,
                   regVars, hVars, genStale, intr, sendFailed, okIds, cancelledIds, hquiet>>
    /\ UNCHANGED restVars

\* `await self._tts_task` ends.  A CancelledError (the task was cancelled, or one
\* is pending for the loop itself) is caught and the state is left alone; a task
\* that returned sends the loop to the else branch, which sets IDLE.
MainTtsReturn ==
    /\ mainPc = "tts"
    /\ tts_task.res \in {"done", "cancelled"}
    /\ IF mainCancel \/ tts_task.res = "cancelled"
         THEN state' = state
         ELSE state' = IDLE
    /\ mainCancel' = FALSE
    /\ mainPc' = "sleep"
    /\ last' = Other
    /\ UNCHANGED <<is_active, queue, history, nextId, ttsVars, bcastVars, trVars,
                   regVars, hVars, genStale, intr, sendFailed, okIds,
                   cancelledIds, hquiet>>
    /\ UNCHANGED restVars

\* ---- GameSession._stream_tts_for_line ------------------------------------
\* the handle self._tts_task after the task with identity id is done
Handle(id, res) == IF tts_task.id = id THEN [id |-> id, res |-> res] ELSE tts_task

\* First step of the task.  A cancellation requested before it throws
\* CancelledError into the coroutine before its try block is entered.
TtsStart(i) ==
    /\ i \in 1..Len(ttsLive)
    /\ ttsLive[i].st = "new"
    /\ IF ttsLive[i].cancel
         THEN /\ ttsLive' = RemoveAt(ttsLive, i)
              /\ tts_task' = Handle(ttsLive[i].id, "cancelled")
         ELSE /\ ttsLive' = [ttsLive EXCEPT ![i].st = "stream"]
              /\ tts_task' = tts_task
    /\ last' = Other
    /\ UNCHANGED <<sessVars, mainVars, bcastVars, trVars, regVars, hVars, genStale, intr,
                   sendFailed, okIds, cancelledIds, hquiet>>
    /\ UNCHANGED restVars

\* A chunk arrives and is sent through manager.active_connections[mission_id];
\* when the id is not registered the KeyError is caught by `except Exception`
\* and the task returns.
TtsChunk(i) ==
    /\ i \in 1..Len(ttsLive)
    /\ ttsLive[i].st = "stream" /\ ~ttsLive[i].cancel
    /\ IF registered
         THEN UNCHANGED <<ttsLive, tts_task, sendFailed>>
         ELSE /\ ttsLive' = RemoveAt(ttsLive, i)
              /\ tts_task' = Handle(ttsLive[i].id, "done")
              /\ sendFailed' = TRUE
    /\ last' = Other
    /\ UNCHANGED <<sessVars, mainVars, bcastVars, trVars, regVars, hVars, genStale, intr,
                   okIds, cancelledIds, hquiet>>
    /\ UNCHANGED restVars

\* The stream ends: the line is appended to the history and the task returns.
TtsFinish(i) ==
    /\ i \in 1..Len(ttsLive)
    /\ ttsLive[i].st = "stream" /\ ~ttsLive[i].cancel
    /\ history' = Append(history, SpokenTurn(ttsLive[i].id))
    /\ okIds' = okIds \cup {ttsLive[i].id}
    /\ ttsLive' = RemoveAt(ttsLive, i)
    /\ tts_task' = Handle(ttsLive[i].id, "done")
    /\ last' = Other
    /\ UNCHANGED <<state, is_active, queue, mainVars, bcastVars, trVars, regVars, hVars,
                   genStale, intr, sendFailed, cancelledIds, hquiet>>
    /\ UNCHANGED restVars

\* the history after `except asyncio.CancelledError` in the task
HistoryOnCancelAppends(h, id) == Append(h, SpokenTurn(id))
HistoryOnCancel(h, id) == h

\* A cancellation reaches the running task: CancelledError is raised at its
\* await, caught inside the task, and the task returns normally.
TtsCancelled(i) ==
    /\ i \in 1..Len(ttsLive)
    /\ ttsLive[i].st = "stream" /\ ttsLive[i].cancel
    /\ history' = HistoryOnCancel(history, ttsLive[i].id)
    /\ ttsLive' = RemoveAt(ttsLive, i)
    /\ tts_task' = Handle(ttsLive[i].id, "done")
    /\ last' = Other
    /\ UNCHANGED <<state, is_active, queue, mainVars, bcastVars, trVars, regVars, hVars,
                   genStale, intr, sendFailed, okIds, cancelledIds, hquiet>>
    /\ UNCHANGED restVars

\* ---- GameSession._broadcast_listeners_loop -------------------------------
BcastCancelled ==
    /\ bcastPc = "wait"
    /\ bcastCancel
    /\ bcastPc' = "cancelled"
    /\ bcastCancel' = FALSE
    /\ last' = Other
    /\ UNCHANGED <<sessVars, mainVars, ttsVars, trVars, regVars, hVars, genStale, intr,
                   sendFailed, okIds, cancelledIds, hquiet>>
    /\ UNCHANGED restVars

\* Top of the loop: leave when the session is not active, else send the count
\* and sleep (wait: the task is suspended in the send or in the sleep).
BcastStep ==
    /\ ~bcastCancel
    /\ bcastPc = "wait"
    /\ bcastPc' = IF is_active THEN "wait" ELSE "done"
    /\ last' = Other
    /\ UNCHANGED <<sessVars, mainVars, ttsVars, bcastCancel, trVars, regVars, hVars,
                   genStale, intr, sendFailed, okIds, cancelledIds, hquiet>>
    /\ UNCHANGED restVars


\* ---- LiveTranscription ---------------------------------------------------
\* _on_transcript: a non-empty fragment is added to full_transcript
OnTranscript(f) ==
    /\ dgOpen
    /\ Len(transcript) < MaxFrags
    /\ transcript' = Append(transcript, f)
    /\ last' = Other
    /\ UNCHANGED <<sessVars, mainVars, ttsVars, bcastVars, tr_active, dgOpen, regVars,
                   hVars, genStale, intr, sendFailed, okIds, cancelledIds, hquiet>>
    /\ UNCHANGED restVars

\* ---- websocket_endpoint and the GameSession commands ---------------------
\* A further connection for the mission id: it is registered and, the session
\* being in game_sessions, reuses it.
Connect(c) ==
    /\ hpc[c] = "unconnected"
    /\ inSessions
    /\ registered' = TRUE
    /\ hpc' = [hpc EXCEPT ![c] = "recv"]
    /\ last' = Other
    /\ UNCHANGED <<sessVars, mainVars, ttsVars, bcastVars, trVars, inSessions, hcap, cmds,
                   genStale, intr, sendFailed, okIds, cancelledIds, hquiet>>
    /\ UNCHANGED restVars

\* The clean-up of a handler that was suspended in the stop() of an earlier
\* session of the same mission id while this one was created: it deletes
\* game_sessions[mission_id], now this session, and unregisters the connection.
ForeignCleanup ==
    /\ inSessions
    /\ inSessions' = FALSE
    /\ registered' = FALSE
    /\ last' = Other
    /\ UNCHANGED <<sessVars, mainVars, ttsVars, bcastVars, trVars, hVars,
                   genStale, intr, sendFailed, okIds, cancelledIds, hquiet>>
    /\ UNCHANGED restVars

\* lines that were generated before a user event
MarkStale(q) == [i \in 1..Len(q) |-> [q[i] EXCEPT !.stale = TRUE]]

\* the queue after `while not self.dialogue_queue.empty(): get_nowait()`
ClearQueueKeepsHead(q) == IF q = <<>> THEN q ELSE <<Head(q)>>
ClearQueue(q) == <<>>

\* start_user_speech; ok is whether dg_connection.start succeeded.
StartUserSpeech(c, ok) ==
    /\ hpc[c] = "recv"
    /\ cmds < MaxCmds
    /\ cmds' = cmds + 1
    /\ LET hit == state = SPEAKING_TTS /\ tts_task.res = "live" IN
         /\ ttsLive' = IF hit THEN CancelTts(ttsLive, tts_task.id) ELSE ttsLive
         /\ cancelledIds' = IF hit THEN cancelledIds \cup {tts_task.id} ELSE cancelledIds
         /\ intr' = hit
    /\ state' = LISTENING_TO_USER
    /\ queue' = MarkStale(ClearQueue(queue))
    /\ IF ok
         THEN /\ tr_active' = TRUE
              /\ dgOpen' = TRUE
              /\ transcript' = <<>>
         ELSE UNCHANGED trVars
    /\ genStale' = (mainPc = "gen")
    /\ hquiet' = [d \in Conns |-> hquiet[d] /\ ~(ok /\ hpc[d] = "stop_fin")]
    /\ last' = "start_speech"
    /\ UNCHANGED <<is_active, history, mainVars, tts_task, bcastVars, regVars, hpc, hcap,
                   sendFailed, okIds>>
    /\ UNCHANGED restVars

\* handle_user_dialogue(dialogue)
HandleUserDialogue(c, text) ==
    /\ hpc[c] = "recv"
    /\ cmds < MaxCmds
    /\ cmds' = cmds + 1
    /\ LET hit == state = SPEAKING_TTS /\ tts_task.res = "live" IN
         /\ ttsLive' = IF hit THEN CancelTts(ttsLive, tts_task.id) ELSE ttsLive
         /\ cancelledIds' = IF hit THEN cancelledIds \cup {tts_task.id} ELSE cancelledIds
    /\ queue' = MarkStale(ClearQueue(queue))
    /\ history' = Append(history, UserTurn(<<text>>))
    /\ state' = IDLE
    /\ genStale' = (mainPc = "gen")
    /\ intr' = FALSE
    /\ last' = "user_dialogue"
    /\ UNCHANGED <<is_active, mainVars, tts_task, bcastVars, trVars, regVars, hpc, hcap,
                   sendFailed, okIds, hquiet>>
    /\ UNCHANGED restVars

\* stop_user_speech up to `await self._live_transcriber.stop()`: it returns at
\* once when the transcriber is not active, else the transcriber is marked
\* inactive and the handler awaits dg_connection.finish().
StopSpeechCallSetsIdle(c) ==
    /\ hpc[c] = "recv"
    /\ cmds < MaxCmds
    /\ cmds' = cmds + 1
    /\ IF tr_active
         THEN /\ tr_active' = FALSE
              /\ hpc' = [hpc EXCEPT ![c] = "finish"]
              /\ hmark' = [hmark EXCEPT ![c] = Len(history)]
         ELSE UNCHANGED <<tr_active, hpc, hmark>>
    /\ state' = IF tr_active THEN state ELSE IDLE
    /\ intr' = FALSE
    /\ last' = IF tr_active THEN Other ELSE "stop_noop"
    /\ UNCHANGED <<is_active, queue, history, mainVars, ttsVars, bcastVars, dgOpen,
                   transcript, regVars, hcap, genStale, sendFailed, okIds, cancelledIds,
                   hquiet>>
    /\ UNCHANGED <<dgAudio, epVars, auxVars>>
StopSpeechCall(c) ==
    /\ hpc[c] = "recv"
    /\ cmds < MaxCmds
    /\ cmds' = cmds + 1
    /\ IF tr_active
         THEN /\ tr_active' = FALSE
              /\ hpc' = [hpc EXCEPT ![c] = "finish"]
              /\ hmark' = [hmark EXCEPT ![c] = Len(history)]
         ELSE UNCHANGED <<tr_active, hpc, hmark>>
    /\ intr' = FALSE
    /\ last' = IF tr_active THEN Other ELSE "stop_noop"
    /\ UNCHANGED <<sessVars, mainVars, ttsVars, bcastVars, dgOpen, transcript, regVars,
                   hcap, genStale, sendFailed, okIds, cancelledIds, hquiet>>
    /\ UNCHANGED <<dgAudio, epVars, auxVars>>

\* finish() is over: the transcript, when not empty, becomes a user turn and
\* the state is set to IDLE.
StopSpeechReturn(c) ==
    /\ hpc[c] = "finish"
    /\ dgOpen' = FALSE
    /\ history' = IF transcript # <<>> THEN Append(history, UserTurn(transcript))
                                        ELSE history
    /\ state' = IDLE
    /\ hpc' = [hpc EXCEPT ![c] = "recv"]
    /\ hmark' = [hmark EXCEPT ![c] = 0]
    /\ last' = "stop_speech"
    /\ UNCHANGED <<is_active, queue, mainVars, ttsVars, bcastVars, tr_active, transcript,
                   regVars, hcap, cmds, genStale, intr, sendFailed, okIds,
                   cancelledIds, hquiet>>
    /\ UNCHANGED <<dgAudio, epVars, auxVars>>


\* ---- frames that reach no session command --------------------------------
\* text frames: not JSON, JSON without an action, with an action the handler
\* does not know, user_dialogue without a dialogue, and ready_for_next
TextFrames == {"not_json", "no_action", "unknown_action", "no_dialogue", "ready_for_next"}

\* json.loads raises on a frame that is not JSON: the exception is not a
\* WebSocketDisconnect, so it ends the handler without its clean-up.  The other
\* frames match no branch (or signal_ready_for_next, which does nothing).
RecvText(c, kind) ==
    /\ hpc[c] = "recv"
    /\ kind \in TextFrames
    /\ hpc' = [hpc EXCEPT ![c] = IF kind = "not_json" THEN "died" ELSE "recv"]
    /\ last' = Other
    /\ UNCHANGED <<sessVars, mainVars, ttsVars, bcastVars, trVars, regVars, hcap, cmds,
                   genStale, intr, sendFailed, okIds, cancelledIds, hquiet>>
    /\ UNCHANGED restVars

\* LiveTranscription.send: the chunk goes to Deepgram when the transcriber is active
TranscriberSend(n) == IF tr_active THEN n + 1 ELSE n

\* A binary frame (user audio): the message has no "text" key and the receive
\* loop has no other branch, so nothing is called.
RecvBytes(c) ==
    /\ hpc[c] = "recv"
    /\ last' = Other
    /\ UNCHANGED <<sessVars, mainVars, ttsVars, bcastVars, trVars, regVars, hVars,
                   genStale, intr, sendFailed, okIds, cancelledIds, hquiet>>
    /\ UNCHANGED restVars

\* ---- GameSession.stop and the handler's clean-up -------------------------
\* Where stop() suspends next, going through tasks_to_cancel from position
\* `from` (main, tts, bcast) and then the transcriber: at the first task that
\* is set and not done (it is cancelled and awaited), else at finish() when the
\* transcriber is active, else nowhere (ret); from = end is after finish().
StopTargetSkipsBroadcast(from, cap) ==
    IF from = "main" /\ cap.main /\ ~TaskDone(mainPc) THEN "stop_main"
    ELSE IF from \in {"main", "tts"} /\ cap.tts \in LiveIds THEN "stop_tts"
    ELSE IF from # "end" /\ tr_active THEN "stop_fin"
    ELSE "ret"
StopTarget(from, cap) ==
    IF from = "main" /\ cap.main /\ ~TaskDone(mainPc) THEN "stop_main"
    ELSE IF from \in {"main", "tts"} /\ cap.tts \in LiveIds THEN "stop_tts"
    ELSE IF from \in {"main", "tts", "bcast"} /\ cap.bcast /\ ~TaskDone(bcastPc)
      THEN "stop_bcast"
    ELSE IF from # "end" /\ tr_active THEN "stop_fin"
    ELSE "ret"

\* stop() runs on from position `from` to its next suspension point or to its
\* return; after the return the handler deletes the session from game_sessions
\* (KeyError when it is gone) and unregisters the connection.
\* Task.cancel() on the main task goes to the TTS task when the loop awaits it.
StopAdvance(c, from, cap) ==
    LET t == StopTarget(from, cap)
        deleg == mainPc = "tts" /\ tts_task.res = "live"
        cid == IF t = "stop_main" /\ deleg THEN tts_task.id
               ELSE IF t = "stop_tts" THEN cap.tts ELSE 0
        quiet == from = "main" \/ hquiet[c]
    IN
    /\ hcap' = [hcap EXCEPT ![c] = IF t = "ret" THEN NoCap ELSE cap]
    /\ hquiet' = [hquiet EXCEPT ![c] = t = "ret" \/ quiet]
    /\ mainCancel' = IF t = "stop_main" /\ ~deleg THEN TRUE ELSE mainCancel
    /\ ttsLive' = CancelTts(ttsLive, cid)
    /\ cancelledIds' = IF cid \in LiveIds THEN cancelledIds \cup {cid} ELSE cancelledIds
    /\ bcastCancel' = IF t = "stop_bcast" THEN TRUE ELSE bcastCancel
    /\ tr_active' = IF t = "stop_fin" THEN FALSE ELSE tr_active
    /\ IF t = "ret"
         THEN /\ hpc' = [hpc EXCEPT ![c] = IF inSessions THEN "closed" ELSE "crashed"]
              /\ inSessions' = FALSE
              /\ registered' = IF inSessions THEN FALSE ELSE registered
              /\ last' = IF cap.main /\ quiet THEN "stop" ELSE "stop_x"
         ELSE /\ hpc' = [hpc EXCEPT ![c] = t]
              /\ UNCHANGED regVars
              /\ last' = Other

\* WebSocketDisconnect in the receive loop.  With the session in game_sessions
\* the handler calls stop(): _is_active is cleared and the three task handles
\* are read; else it only unregisters the connection.
StopEnter(c) ==
    /\ hpc[c] = "recv"
    /\ IF inSessions
         THEN LET cap == [main |-> mainPc # "none", tts |-> tts_task.id,
                          bcast |-> bcastPc # "none"] IN
              /\ is_active' = FALSE
              /\ intr' = FALSE
              /\ StopAdvance(c, "main", cap)
         ELSE /\ registered' = FALSE
              /\ hpc' = [hpc EXCEPT ![c] = "closed"]
              /\ last' = Other
              /\ UNCHANGED <<is_active, hcap, hquiet, intr, mainCancel, ttsLive,
                             cancelledIds, bcastCancel, tr_active, inSessions>>
    /\ UNCHANGED <<state, queue, history, mainPc, nextId, tts_task, bcastPc,
                   dgOpen, transcript, cmds, genStale, sendFailed, okIds>>
    /\ UNCHANGED restVars

\* `await task` in stop() ends: the awaited task is done.  A CancelledError is
\* caught; any other exception of the task leaves stop() and the handler.
StopResume(c) ==
    /\ \/ /\ hpc[c] = "stop_main"
          /\ TaskDone(mainPc)
          /\ IF mainPc = "failed"
               THEN /\ hpc' = [hpc EXCEPT ![c] = "raised"]
                    /\ last' = Other
                    /\ hcap' = [hcap EXCEPT ![c] = NoCap]
                    /\ hquiet' = [hquiet EXCEPT ![c] = TRUE]
                    /\ UNCHANGED <<mainCancel, ttsLive, cancelledIds, bcastCancel,
                                   tr_active, regVars>>
               ELSE StopAdvance(c, "tts", hcap[c])
          /\ UNCHANGED dgOpen
       \/ /\ hpc[c] = "stop_tts"
          /\ hcap[c].tts \notin LiveIds
          /\ StopAdvance(c, "bcast", hcap[c])
          /\ UNCHANGED dgOpen
       \/ /\ hpc[c] = "stop_bcast"
          /\ TaskDone(bcastPc)
          /\ StopAdvance(c, "tr", hcap[c])
          /\ UNCHANGED dgOpen
       \/ /\ hpc[c] = "stop_fin"
          /\ dgOpen' = FALSE
          /\ StopAdvance(c, "end", hcap[c])
    /\ UNCHANGED <<sessVars, mainPc, nextId, tts_task, bcastPc, transcript,
                   cmds, genStale, intr, sendFailed, okIds>>
    /\ UNCHANGED restVars

\* ---- specification -------------------------------------------------------
Next ==
    \/ \E c \in Conns, ready \in BOOLEAN : StartReturn(c, ready)
    \/ MainCancelled
    \/ MainExit
    \/ MainNotIdle
    \/ MainGenerate
    \/ \E n \in 0..MaxBatch : MainGenReturn(n)
    \/ MainGenRaise
    \/ MainSpeak
    \/ MainTtsReturn
    \/ \E i \in 1..Len(ttsLive) : TtsStart(i)
    \/ \E i \in 1..Len(ttsLive) : TtsChunk(i)
    \/ \E i \in 1..Len(ttsLive) : TtsFinish(i)
    \/ \E i \in 1..Len(ttsLive) : TtsCancelled(i)
    \/ BcastCancelled
    \/ BcastStep
    \/ \E f \in Frags : OnTranscript(f)
    \/ \E c \in Conns : Connect(c)
    \/ ForeignCleanup
    \/ \E c \in Conns, ok \in BOOLEAN : StartUserSpeech(c, ok)
    \/ \E c \in Conns, text \in Texts : HandleUserDialogue(c, text)
    \/ \E c \in Conns : StopSpeechCall(c)
    \/ \E c \in Conns : StopSpeechReturn(c)
    \/ \E c \in Conns, kind \in TextFrames : RecvText(c, kind)
    \/ \E c \in Conns : RecvBytes(c)
    \/ \E c \in Conns : StopEnter(c)
    \/ \E c \in Conns : StopResume(c)

Spec == Init /\ [][Next]_vars

TypeOK ==
    /\ state \in SessionState
    /\ is_active \in BOOLEAN
    /\ mainPc \in {"none", "gen", "tts", "sleep", "done", "cancelled", "failed"}
    /\ bcastPc \in {"none", "wait", "done", "cancelled"}
    /\ tts_task.res \in {"none", "live", "done", "cancelled"}
    /\ nextId \in 1..(MaxLines + 1)
    /\ cmds \in 0..MaxCmds
    /\ Len(queue) <= MaxLines


\* ==== the endpoint model ==================================================
\* Every connection of the mission id (connection w is the w-th accepted) and
\* every GameSession constructed for it.  A session is reduced to its tasks:
\* its main task is idle (at the sleep or in generate_dialogue) or tts (it
\* awaits the TTS task of a line), and the dialogue state is a free input of
\* the commands that read it.

\* ConnectionManager.connect after the accept: the entry of the mission id
ManagerConnectKeepsFirst(reg, ws) == IF reg = None THEN ws ELSE reg
ManagerConnect(reg, ws) == ws

\* ConnectionManager.disconnect: the entry of the mission id
ManagerDisconnect(reg) == None

\* manager.connect, then the look-up of game_sessions: a new session is
\* constructed and registered and the handler awaits its start(), or the
\* registered one is taken.  Nothing is awaited between the two.
EConnect(w) ==
    /\ w = nConn + 1
    /\ wpc[w] = "new"
    /\ nConn' = w
    /\ active_connections' = ManagerConnect(active_connections, w)
    /\ IF game_sessions = None
         THEN /\ nSess < MaxSessions
              /\ nSess' = nSess + 1
              /\ game_sessions' = nSess + 1
              /\ wsess' = [wsess EXCEPT ![w] = nSess + 1]
              /\ wpc' = [wpc EXCEPT ![w] = "start"]
         ELSE /\ wsess' = [wsess EXCEPT ![w] = game_sessions]
              /\ wpc' = [wpc EXCEPT ![w] = "recv"]
              /\ UNCHANGED <<nSess, game_sessions>>
    /\ UNCHANGED <<sActive, sMain, sCancel, sBcast, sTr, sLines, errSent, frames>>
    /\ UNCHANGED <<gsVars, auxVars>>

\* the main task after start()
MainAfterStartAlways(ready) == "idle"
MainAfterStart(ready) == IF ready THEN "idle" ELSE "none"

\* start() from the loaded mission to its return.  Not ready: the error goes
\* through send_to_client, which sends to the transport registered now, if any.
EStartReturn(w, ready) ==
    /\ wpc[w] = "start"
    /\ LET s == wsess[w]
           sends == ~ready /\ active_connections # None IN
         /\ sMain' = [sMain EXCEPT ![s] = MainAfterStart(ready)]
         /\ sBcast' = [sBcast EXCEPT ![s] = IF ready THEN "run" ELSE "none"]
         /\ errSent' = [errSent EXCEPT ![s] = IF sends THEN @ + 1 ELSE @]
         /\ frames' = IF sends THEN frames \cup {"error"} ELSE frames
    /\ wpc' = [wpc EXCEPT ![w] = "recv"]
    /\ UNCHANGED <<active_connections, game_sessions, wsess, sActive, sCancel, sTr,
                   sLines, nSess, nConn>>
    /\ UNCHANGED <<gsVars, auxVars>>

\* _main_loop takes a line and awaits its TTS task
EMainSpeak(s) ==
    /\ sMain[s] = "idle" /\ ~sCancel[s] /\ sActive[s]
    /\ sLines[s] < MaxStreamed
    /\ sMain' = [sMain EXCEPT ![s] = "tts"]
    /\ UNCHANGED <<active_connections, game_sessions, wpc, wsess, sActive, sCancel,
                   sBcast, sTr, sLines, errSent, frames, nSess, nConn>>
    /\ UNCHANGED <<gsVars, auxVars>>

\* _main_loop ends: cancelled at its sleep or in generate_dialogue, or
\* _is_active is false at the while test
EMainEnd(s) ==
    /\ sMain[s] = "idle"
    /\ sCancel[s] \/ ~sActive[s]
    /\ sMain' = [sMain EXCEPT ![s] = "ended"]
    /\ sCancel' = [sCancel EXCEPT ![s] = FALSE]
    /\ UNCHANGED <<active_connections, game_sessions, wpc, wsess, sActive, sBcast,
                   sTr, sLines, errSent, frames, nSess, nConn>>
    /\ UNCHANGED <<gsVars, auxVars>>

\* _stream_tts_for_line sends a chunk (a binary frame) through
\* active_connections[mission_id]: a KeyError when the id is not registered,
\* which ends the line
EChunk(s) ==
    /\ sMain[s] = "tts" /\ ~sCancel[s]
    /\ sMain' = IF active_connections # None THEN sMain
                                              ELSE [sMain EXCEPT ![s] = "idle"]
    /\ UNCHANGED <<active_connections, game_sessions, wpc, wsess, sActive, sCancel,
                   sBcast, sTr, sLines, errSent, frames, nSess, nConn>>
    /\ UNCHANGED <<gsVars, auxVars>>

\* the stream of the line ends: the line goes to the history, the task returns;
\* nothing is sent
ELineDone(s) ==
    /\ sMain[s] = "tts" /\ ~sCancel[s]
    /\ sLines' = [sLines EXCEPT ![s] = @ + 1]
    /\ sMain' = [sMain EXCEPT ![s] = "idle"]
    /\ UNCHANGED <<active_connections, game_sessions, wpc, wsess, sActive, sCancel,
                   sBcast, sTr, errSent, frames, nSess, nConn>>
    /\ UNCHANGED <<gsVars, auxVars>>

\* the TTS task takes the cancellation and returns; the loop goes on
ELineCancelled(s) ==
    /\ sMain[s] = "tts" /\ sCancel[s]
    /\ sCancel' = [sCancel EXCEPT ![s] = FALSE]
    /\ sMain' = [sMain EXCEPT ![s] = "idle"]
    /\ UNCHANGED <<active_connections, game_sessions, wpc, wsess, sActive, sBcast,
                   sTr, sLines, errSent, frames, nSess, nConn>>
    /\ UNCHANGED <<gsVars, auxVars>>

\* _broadcast_listeners_loop: leaves when the session is not active, else sends
\* the count through send_to_client and sleeps
EBcast(s) ==
    /\ sBcast[s] = "run"
    /\ IF sActive[s]
         THEN /\ frames' = IF active_connections # None
                             THEN frames \cup {"listeners"} ELSE frames
              /\ sBcast' = sBcast
         ELSE /\ frames' = frames
              /\ sBcast' = [sBcast EXCEPT ![s] = "ended"]
    /\ UNCHANGED <<active_connections, game_sessions, wpc, wsess, sActive, sMain,
                   sCancel, sTr, sLines, errSent, nSess, nConn>>
    /\ UNCHANGED <<gsVars, auxVars>>

EBcastCancelled(s) ==
    /\ sBcast[s] = "cancelling"
    /\ sBcast' = [sBcast EXCEPT ![s] = "ended"]
    /\ UNCHANGED <<active_connections, game_sessions, wpc, wsess, sActive, sMain,
                   sCancel, sTr, sLines, errSent, frames, nSess, nConn>>
    /\ UNCHANGED <<gsVars, auxVars>>

\* start_user_speech or handle_user_dialogue; hit is whether the state is
\* SPEAKING_TTS (then _tts_task.cancel() is called: a no-op on a done task),
\* listen is whether the command starts the transcriber (start_speech with
\* dg_connection.start succeeding).
ECommand(w, hit, listen) ==
    /\ wpc[w] = "recv"
    /\ LET s == wsess[w] IN
         /\ sCancel' = [sCancel EXCEPT ![s] = @ \/ (hit /\ sMain[s] = "tts")]
         /\ sTr' = [sTr EXCEPT ![s] = @ \/ listen]
    /\ UNCHANGED <<active_connections, game_sessions, wpc, wsess, sActive, sMain,
                   sBcast, sLines, errSent, frames, nSess, nConn>>
    /\ UNCHANGED <<gsVars, auxVars>>

\* stop_user_speech up to the await of finish(), or its return when the
\* transcriber is not active
EStopSpeech(w) ==
    /\ wpc[w] = "recv"
    /\ sTr[wsess[w]]
    /\ sTr' = [sTr EXCEPT ![wsess[w]] = FALSE]
    /\ wpc' = [wpc EXCEPT ![w] = "speech_fin"]
    /\ UNCHANGED <<active_connections, game_sessions, wsess, sActive, sMain, sCancel,
                   sBcast, sLines, errSent, frames, nSess, nConn>>
    /\ UNCHANGED <<gsVars, auxVars>>

ESpeechFinReturn(w) ==
    /\ wpc[w] = "speech_fin"
    /\ wpc' = [wpc EXCEPT ![w] = "recv"]
    /\ UNCHANGED <<active_connections, game_sessions, wsess, sActive, sMain, sCancel,
                   sBcast, sTr, sLines, errSent, frames, nSess, nConn>>
    /\ UNCHANGED <<gsVars, auxVars>>

\* a text frame that is not JSON ends the handler without its clean-up
EBadFrame(w) ==
    /\ wpc[w] = "recv"
    /\ wpc' = [wpc EXCEPT ![w] = "died"]
    /\ UNCHANGED <<active_connections, game_sessions, wsess, sActive, sMain, sCancel,
                   sBcast, sTr, sLines, errSent, frames, nSess, nConn>>
    /\ UNCHANGED <<gsVars, auxVars>>

\* Where stop() of session s suspends next, as StopTarget.  The TTS task of
\* tasks_to_cancel is done once the main task that awaited it is; both task
\* handles are set together, so `from` is main only when both were set.
EStopTarget(s, from) ==
    IF from = "main" /\ sMain[s] \in {"idle", "tts"} THEN "stop_main"
    ELSE IF from \in {"main", "bcast"} /\ sBcast[s] \in {"run", "cancelling"}
      THEN "stop_bcast"
    ELSE IF from # "end" /\ sTr[s] THEN "stop_fin"
    ELSE "ret"

\* stop() of session s runs on to its next suspension point or to its return,
\* after which the handler deletes game_sessions[mission_id], whichever session
\* that is now (KeyError when there is none), and unregisters the connection.
EStopAdvance(w, s, from) ==
    LET t == EStopTarget(s, from) IN
    /\ sCancel' = [sCancel EXCEPT ![s] = @ \/ t = "stop_main"]
    /\ sBcast' = [sBcast EXCEPT ![s] = IF t = "stop_bcast" THEN "cancelling" ELSE @]
    /\ sTr' = [sTr EXCEPT ![s] = @ /\ t # "stop_fin"]
    /\ IF t = "ret"
         THEN IF game_sessions # None
                THEN /\ game_sessions' = None
                     /\ active_connections' = ManagerDisconnect(active_connections)
                     /\ wpc' = [wpc EXCEPT ![w] = "closed"]
                ELSE /\ wpc' = [wpc EXCEPT ![w] = "crashed"]
                     /\ UNCHANGED <<game_sessions, active_connections>>
         ELSE /\ wpc' = [wpc EXCEPT ![w] = t]
              /\ UNCHANGED <<game_sessions, active_connections>>

\* WebSocketDisconnect in the receive loop: stop() of the session registered
\* now, which need not be the handler's own, or only manager.disconnect.
EDisconnect(w) ==
    /\ wpc[w] = "recv"
    /\ IF game_sessions # None
         THEN /\ wsess' = [wsess EXCEPT ![w] = game_sessions]
              /\ sActive' = [sActive EXCEPT ![game_sessions] = FALSE]
              /\ EStopAdvance(w, game_sessions,
                              IF sMain[game_sessions] = "none" THEN "tr" ELSE "main")
         ELSE /\ active_connections' = ManagerDisconnect(active_connections)
              /\ wpc' = [wpc EXCEPT ![w] = "closed"]
              /\ UNCHANGED <<game_sessions, wsess, sActive, sCancel, sBcast, sTr>>
    /\ UNCHANGED <<sMain, sLines, errSent, frames, nSess, nConn>>
    /\ UNCHANGED <<gsVars, auxVars>>

\* `await task` or finish() in stop() ends
EStopResume(w) ==
    /\ \/ /\ wpc[w] = "stop_main"
          /\ sMain[wsess[w]] = "ended"
          /\ EStopAdvance(w, wsess[w], "bcast")
       \/ /\ wpc[w] = "stop_bcast"
          /\ sBcast[wsess[w]] = "ended"
          /\ EStopAdvance(w, wsess[w], "tr")
       \/ /\ wpc[w] = "stop_fin"
          /\ EStopAdvance(w, wsess[w], "end")
    /\ UNCHANGED <<wsess, sActive, sMain, sLines, errSent, frames, nSess, nConn>>
    /\ UNCHANGED <<gsVars, auxVars>>

ENext ==
    \/ \E w \in Ws : EConnect(w)
    \/ \E w \in Ws, ready \in BOOLEAN : EStartReturn(w, ready)
    \/ \E s \in Sess : EMainSpeak(s)
    \/ \E s \in Sess : EMainEnd(s)
    \/ \E s \in Sess : EChunk(s)
    \/ \E s \in Sess : ELineDone(s)
    \/ \E s \in Sess : ELineCancelled(s)
    \/ \E s \in Sess : EBcast(s)
    \/ \E s \in Sess : EBcastCancelled(s)
    \/ \E w \in Ws, hit \in BOOLEAN, listen \in BOOLEAN : ECommand(w, hit, listen)
    \/ \E w \in Ws : EStopSpeech(w)
    \/ \E w \in Ws : ESpeechFinReturn(w)
    \/ \E w \in Ws : EBadFrame(w)
    \/ \E w \in Ws : EDisconnect(w)
    \/ \E w \in Ws : EStopResume(w)

EndpointSpec == Init /\ [][ENext]_vars

ETypeOK ==
    /\ active_connections \in {None} \cup Ws
    /\ game_sessions \in {None} \cup Sess
    /\ \A w \in Ws : wpc[w] \in {"new", "start", "recv", "speech_fin", "stop_main",
                                 "stop_bcast", "stop_fin", "closed", "crashed", "died"}
    /\ \A s \in Sess : /\ sMain[s] \in {"none", "idle", "tts", "ended"}
                       /\ sBcast[s] \in {"none", "run", "cancelling", "ended"}
                       /\ sLines[s] \in 0..MaxStreamed
    /\ nSess \in 0..MaxSessions
    /\ nConn \in 0..NumWs

\* ==== the listener count ==================================================
\* The clamp of _broadcast_listeners_loop as a function of the two fields it
\* reads, for every initial count and score drawn from the bounds.
MaxInitial == 3      \* largest initial_listeners drawn
ScoreRange == 50     \* the finite scores drawn are -ScoreRange..ScoreRange tenths
MaxSends == 2        \* rounds of the broadcast loop

\* int(x) of a finite float: truncation toward zero
Trunc(v) == IF v >= 0 THEN v \div 10 ELSE -((-v) \div 10)

Min2(a, b) == IF a <= b THEN a ELSE b
Max2(a, b) == IF a >= b THEN a ELSE b

\* max(0, min(self.initial_listeners, int(self._awakened_listeners)))
ClampNoFloor(init, v) == Min2(init, Trunc(v))
Clamp(init, v) == Max2(0, Min2(init, Trunc(v)))

ListenerSpecInit ==
    /\ SessionInit
    /\ EndpointInit
    /\ TranscriberInit
    /\ LockInit
    /\ MissionInit
    /\ initial_listeners \in 0..MaxInitial
    /\ awakened \in {Score("finite", v) : v \in (-ScoreRange)..ScoreRange}
                      \cup {Score(k, 0) : k \in {"inf", "-inf", "nan"}}
    /\ lsSent = <<>>

\* One round of the loop.  int() raises OverflowError on inf and ValueError on
\* nan; `except Exception` catches it and nothing is sent.
LsBroadcast ==
    /\ Len(lsSent) < MaxSends
    /\ lsSent' = IF awakened.kind = "finite"
                   THEN Append(lsSent, Clamp(initial_listeners, awakened.v))
                   ELSE lsSent
    /\ UNCHANGED <<initial_listeners, awakened>>
    /\ UNCHANGED <<gsVars, epVars, ltVars, lkVars, msVars>>

ListenerSpec == ListenerSpecInit /\ [][LsBroadcast]_vars

\* ==== the live transcriber =================================================
\* LiveTranscription on its own: start, transcript events and stop in every
\* order.  full_transcript is a string, modelled as its characters.
MaxEvents == 3       \* transcript events delivered
MaxStops == 2        \* stop() calls

\* the transcripts Deepgram delivers: the empty one and trimmed text
LtFrags == {<<>>, <<"x">>, <<"y">>, <<"x", " ", "y">>}

\* str.strip() on the characters: leading and trailing blanks are dropped
RECURSIVE LStrip(_)
LStrip(t) == IF t # <<>> /\ Head(t) = " " THEN LStrip(Tail(t)) ELSE t

RECURSIVE RStrip(_)
RStrip(t) == IF t # <<>> /\ t[Len(t)] = " " THEN RStrip(SubSeq(t, 1, Len(t) - 1)) ELSE t

Strip(t) == RStrip(LStrip(t))

\* self.full_transcript += transcript + " "
LtAccumulatePrepends(t, f) == f \o <<" ">> \o t
LtAccumulate(t, f) == t \o f \o <<" ">>

\* start(); ok is whether dg_connection.start(options) returned true (a false
\* value or an exception leaves the transcriber as it was).  No transcript of
\* the new connection precedes the reset: none is produced before audio.
LtStart(ok) ==
    /\ IF ok
         THEN /\ lt_active' = TRUE
              /\ lt_open' = TRUE
              /\ full_transcript' = <<>>
              /\ ltHeard' = <<>>
         ELSE UNCHANGED <<lt_active, lt_open, full_transcript, ltHeard>>
    /\ UNCHANGED <<ltStopping, ltResult, ltEvents>>
    /\ UNCHANGED <<gsVars, epVars, lsVars, lkVars, msVars>>

\* _on_transcript: an empty transcript is skipped
LtOnTranscript(f) ==
    /\ lt_open
    /\ ltEvents < MaxEvents
    /\ ltEvents' = ltEvents + 1
    /\ IF f # <<>>
         THEN /\ full_transcript' = LtAccumulate(full_transcript, f)
              /\ ltHeard' = Append(ltHeard, f)
         ELSE UNCHANGED <<full_transcript, ltHeard>>
    /\ UNCHANGED <<lt_active, lt_open, ltStopping, ltResult>>
    /\ UNCHANGED <<gsVars, epVars, lsVars, lkVars, msVars>>

\* what stop() returns
LtReturned == [got |-> Strip(full_transcript), heard |-> ltHeard]

\* stop() up to its await: an inactive transcriber returns at once
LtStopCall ==
    /\ Len(ltResult) + ltStopping < MaxStops
    /\ IF lt_active
         THEN /\ lt_active' = FALSE
              /\ ltStopping' = ltStopping + 1
              /\ UNCHANGED ltResult
         ELSE /\ ltResult' = Append(ltResult, LtReturned)
              /\ UNCHANGED <<lt_active, ltStopping>>
    /\ UNCHANGED <<lt_open, full_transcript, ltHeard, ltEvents>>
    /\ UNCHANGED <<gsVars, epVars, lsVars, lkVars, msVars>>

\* dg_connection.finish() is over: the connection is closed and stop() returns
LtStopReturn ==
    /\ ltStopping > 0
    /\ ltStopping' = ltStopping - 1
    /\ lt_open' = FALSE
    /\ ltResult' = Append(ltResult, LtReturned)
    /\ UNCHANGED <<lt_active, full_transcript, ltHeard, ltEvents>>
    /\ UNCHANGED <<gsVars, epVars, lsVars, lkVars, msVars>>

LtNext ==
    \/ \E ok \in BOOLEAN : LtStart(ok)
    \/ \E f \in LtFrags : LtOnTranscript(f)
    \/ LtStopCall
    \/ LtStopReturn

TranscriberSpec == Init /\ [][LtNext]_vars

\* ==== the state lock ======================================================
\* The main loop and the three commands statement by statement, to show who
\* writes _state and when the lock is held.  asyncio runs one task at a time
\* (lkRun) and switches only where a task suspends; a frame may arrive at any
\* moment but its handler runs when the loop is free.
\* op: wait (main: at asyncio.sleep or just created), check, acq / w / rel (the
\* three steps of an `async with self._state_lock` block blk), gen (in
\* to_thread), put, tts (awaiting the TTS task), after_tts, get (blocked in
\* dialogue_queue.get), recv, cmd (a frame has arrived), stop_test, fin.
MaxLkCmds == 3       \* commands received
MaxLkBatch == 2      \* lines of a batch

LkCommands == {"start_speech", "user_dialogue", "stop_speech"}

\* asyncio.Lock.acquire returns at once on a free lock without waiters and
\* suspends the caller otherwise
LockAcquireSuspendsAlways(locked, waiters) == TRUE
LockAcquireSuspends(locked, waiters) == locked \/ waiters # {}

\* what the block blk assigns to self._state
LkWritten(blk) ==
    IF blk \in {"gen", "speak"} THEN SPEAKING_TTS
    ELSE IF blk = "start_speech" THEN LISTENING_TO_USER
    ELSE IDLE

\* where a task resumes from the suspension point at
LkResumeAt(at) ==
    IF at.op = "wait" THEN LkAt("check", "-")
    ELSE IF at.op = "gen" THEN LkAt("put", "-")
    ELSE IF at.op = "tts" THEN LkAt("after_tts", "-")
    ELSE IF at.op = "fin" THEN LkAt("acq", "stop_speech")
    ELSE IF at.blk = "stop_speech" THEN LkAt("stop_test", "stop_speech")
    ELSE LkAt("acq", at.blk)

\* a frame with a command arrives for a handler suspended in receive
LkArrive(h, cmd) ==
    /\ lkPc[h].op = "recv"
    /\ lkCmds < MaxLkCmds
    /\ lkCmds' = lkCmds + 1
    /\ lkPc' = [lkPc EXCEPT ![h] = LkAt("cmd", cmd)]
    /\ UNCHANGED <<lkState, lkLocked, lkWaiters, lkHolders, lkRun, lkQueue, lkTts, lkTr>>
    /\ UNCHANGED <<gsVars, epVars, lsVars, ltVars, msVars>>

\* The event loop, free, runs a task that is ready: the sleep is over, the
\* thread or the TTS task is done, a frame is there, finish() is over, or the
\* task waits for the lock and the lock is free (it then owns the lock).
LkResume(t) ==
    /\ lkRun = "none"
    /\ lkPc[t].op \in {"wait", "gen", "tts", "cmd", "fin", "acq"}
    /\ lkPc[t].op = "tts" => ~lkTts.live
    /\ lkPc[t].op = "acq" => t \in lkWaiters /\ ~lkLocked
    /\ lkRun' = t
    /\ IF lkPc[t].op = "acq"
         THEN /\ lkLocked' = TRUE
              /\ lkWaiters' = lkWaiters \ {t}
              /\ lkHolders' = lkHolders \cup {t}
              /\ lkPc' = [lkPc EXCEPT ![t] = LkAt("w", lkPc[t].blk)]
         ELSE /\ lkPc' = [lkPc EXCEPT ![t] = LkResumeAt(lkPc[t])]
              /\ UNCHANGED <<lkLocked, lkWaiters, lkHolders>>
    /\ UNCHANGED <<lkState, lkQueue, lkTts, lkTr, lkCmds>>
    /\ UNCHANGED <<gsVars, epVars, lsVars, ltVars, msVars>>

\* while self._is_active / if self._state == IDLE / if self.dialogue_queue.empty()
LkCheck ==
    /\ lkRun = "main"
    /\ lkPc["main"].op = "check"
    /\ IF lkState = IDLE
         THEN /\ lkPc' = [lkPc EXCEPT !["main"] =
                            LkAt("acq", IF lkQueue = 0 THEN "gen" ELSE "speak")]
              /\ UNCHANGED lkRun
         ELSE /\ lkPc' = [lkPc EXCEPT !["main"] = LkAt("wait", "-")]
              /\ lkRun' = "none"
    /\ UNCHANGED <<lkState, lkLocked, lkWaiters, lkHolders, lkQueue, lkTts, lkTr, lkCmds>>
    /\ UNCHANGED <<gsVars, epVars, lsVars, ltVars, msVars>>

\* async with self._state_lock: entry
LkAcquire(t) ==
    /\ lkRun = t
    /\ lkPc[t].op = "acq"
    /\ IF LockAcquireSuspends(lkLocked, lkWaiters)
         THEN /\ lkWaiters' = lkWaiters \cup {t}
              /\ lkRun' = "none"
              /\ UNCHANGED <<lkLocked, lkHolders, lkPc>>
         ELSE /\ lkLocked' = TRUE
              /\ lkHolders' = lkHolders \cup {t}
              /\ lkPc' = [lkPc EXCEPT ![t] = LkAt("w", lkPc[t].blk)]
              /\ UNCHANGED <<lkWaiters, lkRun>>
    /\ UNCHANGED <<lkState, lkQueue, lkTts, lkTr, lkCmds>>
    /\ UNCHANGED <<gsVars, epVars, lsVars, ltVars, msVars>>

\* The body of the block: the assignment to self._state, with the cancel of
\* the TTS task and the clearing of the queue in the two commands that do so.
LkWrite(t) ==
    /\ lkRun = t
    /\ lkPc[t].op = "w"
    /\ lkState' = LkWritten(lkPc[t].blk)
    /\ IF lkPc[t].blk \in {"start_speech", "user_dialogue"}
         THEN /\ lkTts' = IF lkState = SPEAKING_TTS /\ lkTts.live
                            THEN [lkTts EXCEPT !.cancel = TRUE] ELSE lkTts
              /\ lkQueue' = 0
         ELSE UNCHANGED <<lkTts, lkQueue>>
    /\ lkPc' = [lkPc EXCEPT ![t] = LkAt("rel", lkPc[t].blk)]
    /\ UNCHANGED <<lkLocked, lkWaiters, lkHolders, lkRun, lkTr, lkCmds>>
    /\ UNCHANGED <<gsVars, epVars, lsVars, ltVars, msVars>>

\* The block is left and the task runs on to its next suspension: to_thread,
\* the await of the TTS task just created, the sleep, or receive (after
\* start_speech the transcriber was started; ok is whether that succeeded).
LkRelease(t, ok) ==
    /\ lkRun = t
    /\ lkPc[t].op = "rel"
    /\ lkLocked' = FALSE
    /\ lkHolders' = lkHolders \ {t}
    /\ lkRun' = "none"
    /\ LET blk == lkPc[t].blk IN
         /\ lkPc' = [lkPc EXCEPT ![t] =
                       IF blk = "gen" THEN LkAt("gen", "-")
                       ELSE IF blk = "speak"
                         THEN IF lkQueue > 0 THEN LkAt("tts", "-") ELSE LkAt("get", "-")
                       ELSE IF blk = "idle" THEN LkAt("wait", "-")
                       ELSE LkAt("recv", "-")]
         /\ lkQueue' = IF blk = "speak" /\ lkQueue > 0 THEN lkQueue - 1 ELSE lkQueue
         /\ lkTts' = IF blk = "speak" /\ lkQueue > 0
                       THEN [live |-> TRUE, cancel |-> FALSE, res |-> "none"]
                       ELSE lkTts
         /\ lkTr' = IF blk = "start_speech" /\ ok THEN TRUE ELSE lkTr
    /\ UNCHANGED <<lkState, lkWaiters, lkCmds>>
    /\ UNCHANGED <<gsVars, epVars, lsVars, ltVars, msVars>>

\* generate_dialogue returned n lines: they are put on the queue
LkPut(n) ==
    /\ lkRun = "main"
    /\ lkPc["main"].op = "put"
    /\ lkQueue + n <= MaxLkBatch
    /\ lkQueue' = lkQueue + n
    /\ lkPc' = [lkPc EXCEPT !["main"] = LkAt("acq", "idle")]
    /\ UNCHANGED <<lkState, lkLocked, lkWaiters, lkHolders, lkRun, lkTts, lkTr, lkCmds>>
    /\ UNCHANGED <<gsVars, epVars, lsVars, ltVars, msVars>>

\* `await self._tts_task` is over: except CancelledError goes to the sleep,
\* else to the block that sets IDLE
LkAfterTts ==
    /\ lkRun = "main"
    /\ lkPc["main"].op = "after_tts"
    /\ IF lkTts.res = "cancelled"
         THEN /\ lkPc' = [lkPc EXCEPT !["main"] = LkAt("wait", "-")]
              /\ lkRun' = "none"
         ELSE /\ lkPc' = [lkPc EXCEPT !["main"] = LkAt("acq", "idle")]
              /\ UNCHANGED lkRun
    /\ UNCHANGED <<lkState, lkLocked, lkWaiters, lkHolders, lkQueue, lkTts, lkTr, lkCmds>>
    /\ UNCHANGED <<gsVars, epVars, lsVars, ltVars, msVars>>

\* stop_user_speech: the test of the transcriber and the await of its stop()
LkStopTest(h) ==
    /\ lkRun = h
    /\ lkPc[h].op = "stop_test"
    /\ lkPc' = [lkPc EXCEPT ![h] = IF lkTr THEN LkAt("fin", "stop_speech")
                                            ELSE LkAt("recv", "-")]
    /\ lkTr' = FALSE
    /\ lkRun' = "none"
    /\ UNCHANGED <<lkState, lkLocked, lkWaiters, lkHolders, lkQueue, lkTts, lkCmds>>
    /\ UNCHANGED <<gsVars, epVars, lsVars, ltVars, msVars>>

\* The TTS task ends; it ends cancelled only when it was cancelled (before its
\* first step), and it writes no state.
LkTtsEnd(res) ==
    /\ lkRun = "none"
    /\ lkTts.live
    /\ res \in {"done", "cancelled"}
    /\ res = "cancelled" => lkTts.cancel
    /\ lkTts' = [live |-> FALSE, cancel |-> FALSE, res |-> res]
    /\ UNCHANGED <<lkState, lkLocked, lkWaiters, lkHolders, lkRun, lkPc, lkQueue, lkTr,
                   lkCmds>>
    /\ UNCHANGED <<gsVars, epVars, lsVars, ltVars, msVars>>

LkNext ==
    \/ \E h \in LkHandlers, cmd \in LkCommands : LkArrive(h, cmd)
    \/ \E t \in LkTasks : LkResume(t)
    \/ LkCheck
    \/ \E t \in LkTasks : LkAcquire(t)
    \/ \E t \in LkTasks : LkWrite(t)
    \/ \E t \in LkTasks, ok \in BOOLEAN : LkRelease(t, ok)
    \/ \E n \in 0..MaxLkBatch : LkPut(n)
    \/ LkAfterTts
    \/ \E h \in LkHandlers : LkStopTest(h)
    \/ \E res \in {"done", "cancelled"} : LkTtsEnd(res)

LockSpec == Init /\ [][LkNext]_vars

\* ==== the mission record ==================================================
\* create_mission, the stage 2 background task of each mission, and the
\* start() of sessions for it, which reads the record at any moment.  The
\* store applies an update as a whole or, raising, not at all.

\* the texts of a model response: none, empty, or a briefing
LlmTexts == {NoText, "", "briefing"}

\* the dialogue_generator_prompt of a mission constructed without one
NewMissionPrompt == NoText

\* Python truth of an optional string
Truthy(text) == text \notin {NoText, ""}

\* start(): `if not mission or not mission.dialogue_generator_prompt` is false
StartReadyAnyRecord(status, prompt) == status # "absent"
StartReady(status, prompt) == status # "absent" /\ Truthy(prompt)

\* create_mission: the record is inserted with status stage1 and the
\* background task is added
MsCreate(m) ==
    /\ msStatus[m] = "absent"
    /\ msStatus' = [msStatus EXCEPT ![m] = "stage1"]
    /\ msPrompt' = [msPrompt EXCEPT ![m] = NewMissionPrompt]
    /\ msBg' = [msBg EXCEPT ![m] = "gen"]
    /\ UNCHANGED <<msDyn, msStarts, msLoops>>
    /\ UNCHANGED <<gsVars, epVars, lsVars, ltVars, lkVars>>

\* generate_unified_dialogue_prompt is over: it returns response.text when
\* that is truthy and raises LLMServiceError otherwise (raised: the client
\* call itself raised)
MsGenerated(m, text, raised) ==
    /\ msBg[m] = "gen"
    /\ text \in LlmTexts
    /\ IF ~raised /\ Truthy(text)
         THEN /\ msDyn' = [msDyn EXCEPT ![m] = text]
              /\ msBg' = [msBg EXCEPT ![m] = "store"]
         ELSE /\ msBg' = [msBg EXCEPT ![m] = "failed"]
              /\ UNCHANGED msDyn
    /\ UNCHANGED <<msStatus, msPrompt, msStarts, msLoops>>
    /\ UNCHANGED <<gsVars, epVars, lsVars, ltVars, lkVars>>

\* update_propaganda_mission with the prompt and status stage2, in one $set;
\* an exception of the update goes to `except Exception`
MsStore(m, ok) ==
    /\ msBg[m] = "store"
    /\ IF ok
         THEN /\ msPrompt' = [msPrompt EXCEPT ![m] = msDyn[m]]
              /\ msStatus' = [msStatus EXCEPT ![m] = "stage2"]
              /\ msBg' = [msBg EXCEPT ![m] = "done"]
         ELSE /\ msBg' = [msBg EXCEPT ![m] = "failed"]
              /\ UNCHANGED <<msPrompt, msStatus>>
    /\ UNCHANGED <<msDyn, msStarts, msLoops>>
    /\ UNCHANGED <<gsVars, epVars, lsVars, ltVars, lkVars>>

\* the except branches: status stage2_failed is stored (an exception of this
\* update leaves the task)
MsStoreFailed(m, ok) ==
    /\ msBg[m] = "failed"
    /\ IF ok
         THEN /\ msStatus' = [msStatus EXCEPT ![m] = "stage2_failed"]
              /\ msBg' = [msBg EXCEPT ![m] = "done"]
         ELSE /\ msBg' = [msBg EXCEPT ![m] = "raised"]
              /\ UNCHANGED msStatus
    /\ UNCHANGED <<msPrompt, msDyn, msStarts, msLoops>>
    /\ UNCHANGED <<gsVars, epVars, lsVars, ltVars, lkVars>>

\* GameSession.start() of a session for mission m: the record is loaded and
\* the loop tasks are created when it is ready
MsSessionStart(m) ==
    /\ msStarts[m] < MaxStarts
    /\ msStarts' = [msStarts EXCEPT ![m] = msStarts[m] + 1]
    /\ msLoops' = [msLoops EXCEPT ![m] =
                     IF StartReady(msStatus[m], msPrompt[m])
                       THEN msLoops[m] \cup {msStatus[m]} ELSE msLoops[m]]
    /\ UNCHANGED <<msStatus, msPrompt, msBg, msDyn>>
    /\ UNCHANGED <<gsVars, epVars, lsVars, ltVars, lkVars>>

MsNext ==
    \/ \E m \in Missions : MsCreate(m)
    \/ \E m \in Missions, text \in LlmTexts, raised \in BOOLEAN : MsGenerated(m, text, raised)
    \/ \E m \in Missions, ok \in BOOLEAN : MsStore(m, ok)
    \/ \E m \in Missions, ok \in BOOLEAN : MsStoreFailed(m, ok)
    \/ \E m \in Missions : MsSessionStart(m)

MissionSpec == Init /\ [][MsNext]_vars

\* ==== the undisturbed session ==============================================
\* The session with no user command and no disconnect: the steps of start(),
\* of the main loop, of the TTS tasks and of the broadcast loop, and the
\* handlers receiving frames that reach no command.
LiveNext ==
    \/ \E c \in Conns, ready \in BOOLEAN : StartReturn(c, ready)
    \/ MainGenerate
    \/ \E n \in 0..MaxBatch : MainGenReturn(n)
    \/ MainGenRaise
    \/ MainSpeak
    \/ MainTtsReturn
    \/ \E i \in 1..Len(ttsLive) : TtsStart(i)
    \/ \E i \in 1..Len(ttsLive) : TtsChunk(i)
    \/ \E i \in 1..Len(ttsLive) : TtsFinish(i)
    \/ BcastStep
    \/ \E c \in Conns : Connect(c)
    \/ \E c \in Conns, kind \in TextFrames : RecvText(c, kind)
    \/ \E c \in Conns : RecvBytes(c)

\* The event loop runs every task that is ready (the 0.1 s sleep ends, a task
\* created is started, a task awaiting a done task is resumed), and the
\* response of the TTS request is finite, so the stream of a line ends.
LiveFair ==
    /\ WF_vars(MainGenerate)
    /\ WF_vars(MainSpeak)
    /\ WF_vars(MainTtsReturn)
    /\ WF_vars(\E i \in 1..Len(ttsLive) : TtsStart(i))
    /\ WF_vars(\E i \in 1..Len(ttsLive) : TtsFinish(i))

LiveSpec == Init /\ [][LiveNext]_vars /\ LiveFair


\* ---- claims --------------------------------------------------------------
\* a TTS task that is not done and that nobody has cancelled
Running == {i \in 1..Len(ttsLive) : ~ttsLive[i].cancel}

\* C1: whatever the client commands and loop steps, the session never has more
\* than one TTS task that is not done.  (Its transcriber is the one
\* LiveTranscription object made in __init__, which is active or not.)
C1_SingleFlight == Len(ttsLive) <= 1

\* C1 witness: a second line is being synthesized after the first was spoken.
C1_Witness == Len(ttsLive) = 1 /\ okIds # {} /\ cmds > 0

\* C2 (as claimed): once start_speech has interrupted a synthesis, the state is
\* LISTENING_TO_USER until the next stop_speech, user_dialogue or stop().
C2_Claim == intr => state = LISTENING_TO_USER

\* C3: the spoken lines in the history are exactly the lines whose TTS task ran
\* to the end of its stream, and no line whose task was cancelled is among them.
C3_NoPhantomHistory ==
    /\ SpokenIds(history) = okIds
    /\ cancelledIds \cap SpokenIds(history) = {}

\* C3 witness: one line was spoken to the end and another was cancelled.
C3_Witness == okIds # {} /\ cancelledIds # {} /\ ttsLive = <<>>

\* C4: when start_user_speech or handle_user_dialogue has returned, the
\* dialogue queue is empty.
C4_QueueCleared == last \in {"start_speech", "user_dialogue"} => queue = <<>>

\* C4 witness: the command came while line 1 was spoken and line 2 was queued.
C4_Witness ==
    /\ last \in {"start_speech", "user_dialogue"}
    /\ nextId = 3 /\ tts_task.id = 1 /\ queue = <<>>

\* C5 (as claimed): no line that was generated before a start_speech or
\* user_dialogue event is synthesized after it.
C5_Claim == \A i \in 1..Len(ttsLive) : ~ttsLive[i].stale

\* C6 (as claimed): in LISTENING_TO_USER the queue is empty and no TTS task is
\* running.
C6_Claim == state = LISTENING_TO_USER => queue = <<>> /\ Running = {}

\* C7 (as claimed): a failing generate_dialogue call never ends the main loop.
C7_Claim == mainPc # "failed"

\* C8 (as claimed): after a chunk met an unregistered connection, no further
\* line is synthesized.
C8_Claim == [][sendFailed => tts_task'.id = tts_task.id]_vars

\* C9: every line taken for synthesis was returned by the Dialogue Source after
\* the line taken before it (line ids count in the order of return).
C9_Order == [][tts_task'.id # tts_task.id => tts_task'.id > tts_task.id]_vars

\* C9 witness: line 2 is synthesized after line 1 was spoken.
C9_Witness == tts_task.id = 2 /\ 1 \in okIds

C13_Claim ==
    [][\A c \in Conns :
         /\ (StopSpeechCall(c) /\ state = LISTENING_TO_USER /\ hpc'[c] = "recv")
              => state' = IDLE
         /\ StopSpeechReturn(c)
              => /\ state' = IDLE
                 /\ history' = IF transcript # <<>>
                                  THEN Append(history, UserTurn(transcript))
                                  ELSE history]_vars

\* C14 (as claimed): a user_dialogue received in IDLE or SPEAKING_TTS leaves no
\* TTS task running uncancelled, an empty queue, one more user turn with the
\* given text, and the state IDLE.
C14_Claim ==
    [][\A c \in Conns, text \in Texts :
         (HandleUserDialogue(c, text) /\ state \in {IDLE, SPEAKING_TTS})
           => /\ Running' = {}
              /\ queue' = <<>>
              /\ history' = Append(history, UserTurn(<<text>>))
              /\ state' = IDLE]_vars

\* C15 (as claimed): a user audio chunk received in LISTENING_TO_USER is handed
\* to the transcriber, and one received in another state changes nothing.
C15_Claim ==
    [][\A c \in Conns :
         RecvBytes(c) => dgAudio' = IF state = LISTENING_TO_USER
                                      THEN TranscriberSend(dgAudio)
                                      ELSE dgAudio]_vars

\* C16 (as claimed, as the final result): when the handler of a connection has
\* ended, the session is stopped, is not in game_sessions, and the connection
\* is not registered.
C16_Claim ==
    \A c \in Conns :
      hpc[c] \in {"closed", "crashed", "died"}
        => ~is_active /\ ~inSessions /\ ~registered

\* the text frames that are malformed
Malformed == TextFrames \ {"ready_for_next"}

\* C17 (as claimed): a malformed text frame leaves the state, the queue and the
\* history unchanged and the handler at its receive loop.
C17_Claim ==
    [][\A c \in Conns, kind \in Malformed :
         RecvText(c, kind) => /\ UNCHANGED <<state, queue, history>>
                              /\ hpc'[c] = "recv"]_vars

\* C19 (as claimed): sending an audio chunk while the mission id is not
\* registered is a no-op for the sender, which goes on with its line.
C19_Claim ==
    [][\A i \in 1..Len(ttsLive) :
         (TtsChunk(i) /\ ~registered) => ttsLive' = ttsLive /\ tts_task' = tts_task]_vars

\* the sessions whose main loop is running
LoopsRunning == {s \in Sess : sActive[s] /\ sMain[s] \in {"idle", "tts"}}

\* C11 (as claimed): whatever the connections of the mission id do, at most one
\* session has a running main loop.
C11_Claim == Cardinality(LoopsRunning) <= 1

C18_Claim == \A s \in Sess : sLines[s] > 0 => "dialogue_end" \in frames

\* C20: a connect leaves the connecting transport registered, whatever was
\* registered before; connecting a transport twice is connecting it once; after
\* a disconnect nothing is registered.
C20_Registry ==
    [][/\ \A w \in Ws : EConnect(w) => active_connections' = w
       /\ \A w \in Ws :
            ManagerConnect(ManagerConnect(active_connections, w), w)
              = ManagerConnect(active_connections, w)
       /\ \A w \in Ws : (wpc[w] # "closed" /\ wpc'[w] = "closed")
                           => active_connections' = None
       /\ ManagerDisconnect(active_connections) = None]_vars

\* C20 witness: connection 2 replaced connection 1, which is still open.
C20_Witness ==
    /\ active_connections = 2
    /\ wpc[1] = "recv" /\ wpc[2] = "recv"

\* C21: every awakened-listeners value sent is an integer from 0 to
\* initial_listeners, whatever the score.
C21_Clamped == \A i \in 1..Len(lsSent) : lsSent[i] \in 0..initial_listeners

\* C21 witness: a score above the initial count was sent as the initial count.
C21_Witness ==
    /\ awakened.kind = "finite"
    /\ awakened.v > 10 * initial_listeners + 10
    /\ lsSent # <<>> /\ lsSent[1] = initial_listeners

\* C22: once the TTS task of a line has been cancelled (by start_speech,
\* user_dialogue or stop()), the task can send no further chunk of the line.
C22_Prompt ==
    \A i \in 1..Len(ttsLive) :
      ttsLive[i].id \in cancelledIds => ~ENABLED TtsChunk(i)

\* C22 witness: a task was cancelled in the middle of its stream and has not
\* run since.
C22_Witness ==
    \E i \in 1..Len(ttsLive) :
      /\ ttsLive[i].st = "stream" /\ ttsLive[i].cancel
      /\ ttsLive[i].id \in cancelledIds

\* C23 (as claimed): the history only grows at its end, and the user turn of a
\* stop_speech follows no entry of an event later than the receipt of the
\* command: nothing is appended between the receipt and the turn.
C23_Claim ==
    [][/\ Len(history') >= Len(history)
       /\ SubSeq(history', 1, Len(history)) = history
       /\ \A c \in Conns :
            (StopSpeechReturn(c) /\ transcript # <<>>) => Len(history) = hmark[c]]_vars

\* how many entries of the history h are the spoken line id
TimesSpoken(h, id) == Cardinality({i \in 1..Len(h) : h[i] = SpokenTurn(id)})

\* C24: with no user command and no disconnect, under fair scheduling, every
\* line the dialogue source returned is eventually synthesized to its end and
\* is in the history exactly once (never a second task or entry for it); once
\* every returned line is spoken and the source returns only empty batches, no
\* TTS task is started.
C24_Live ==
    /\ \A id \in 1..MaxLines : (id < nextId) ~> (id \in okIds /\ TimesSpoken(history, id) = 1)
    /\ [](\A id \in 1..MaxLines :
            /\ TimesSpoken(history, id) <= 1
            /\ Cardinality({i \in 1..Len(ttsLive) : ttsLive[i].id = id})
                 + TimesSpoken(history, id) <= 1)
    /\ [][(okIds = 1..(nextId - 1) /\ nextId' = nextId) => ttsLive' = <<>>]_vars

\* C24 witness: every line of two batches has been spoken and the loop is in
\* a further generation call.
C24_Witness ==
    /\ okIds = 1..MaxLines
    /\ history = <<SpokenTurn(1), SpokenTurn(2)>>
    /\ mainPc = "gen" /\ ttsLive = <<>>

\* the fragments fs in order, one blank between neighbours
RECURSIVE JoinFrags(_)
JoinFrags(fs) ==
    IF fs = <<>> THEN <<>>
    ELSE IF Len(fs) = 1 THEN fs[1]
    ELSE fs[1] \o <<" ">> \o JoinFrags(Tail(fs))

\* C25: every stop() of the live transcriber returns the fragments received
\* since its most recent (successful) start, all of them and in arrival order,
\* and returns the empty string only when none was received.
C25_Returned ==
    \A i \in 1..Len(ltResult) :
      /\ ltResult[i].got = JoinFrags(ltResult[i].heard)
      /\ ltResult[i].got = <<>> <=> ltResult[i].heard = <<>>

\* C25 witness: a stop() returned two different fragments, joined in their
\* arrival order, and the connection is closed.
C25_Witness ==
    /\ ltResult # <<>>
    /\ ltResult[1].heard = <<<<"x", " ", "y">>, <<"x">>>>
    /\ ltResult[1].got = <<"x", " ", "y", " ", "x">>
    /\ ~lt_open /\ ltStopping = 0

\* stop() has been called and no call of it is still in progress
StopDone ==
    /\ ~is_active
    /\ \A c \in Conns : hpc[c] \notin {"stop_main", "stop_tts", "stop_bcast", "stop_fin"}

\* C26 (as claimed): once stop() has run, the session has no main loop, TTS
\* task or broadcast task that is not done and no active transcriber,
\* whatever arrives or completes afterwards.
C26_Claim ==
    StopDone =>
      /\ mainPc = "none" \/ TaskDone(mainPc)
      /\ ttsLive = <<>>
      /\ bcastPc = "none" \/ TaskDone(bcastPc)
      /\ ~tr_active

\* C27: the main loop enters generate_dialogue only from IDLE with an empty
\* queue and no TTS task alive, and for as long as the call lasts the queue
\* stays empty and no TTS task exists: no batch is fetched ahead.
C27_NoPrefetch ==
    /\ [](mainPc = "gen" => queue = <<>> /\ ttsLive = <<>>)
    /\ [][(mainPc' = "gen" /\ mainPc # "gen")
            => state = IDLE /\ queue = <<>> /\ ttsLive = <<>>]_vars

\* C27 witness: the loop is generating again after the one line of its first
\* batch was spoken.
C27_Witness ==
    /\ mainPc = "gen" /\ state = SPEAKING_TTS
    /\ nextId = 2 /\ okIds = {1}
    /\ tts_task = [id |-> 1, res |-> "done"]

\* C28: when generate_dialogue has just returned an empty batch, nothing was
\* put on the queue, the state is IDLE and the loop is at its sleep, from
\* where alone the next generation call starts: no second call without a
\* sleep in between.
C28_Backoff ==
    last = "gen_empty" => queue = <<>> /\ state = IDLE /\ mainPc = "sleep"

\* C28 witness: an empty batch has just been returned after a line was spoken.
C28_Witness ==
    /\ last = "gen_empty"
    /\ history = <<SpokenTurn(1)>>
    /\ mainPc = "sleep"

C29_Lock ==
    /\ \A t \in LkTasks : lkPc[t].op = "w" => lkLocked /\ t \in lkHolders
    /\ Cardinality(lkHolders) <= 1
    /\ (lkPc["main"].op = "w" /\ lkPc["main"].blk \in {"gen", "speak"}) => lkState = IDLE

\* C29 witness: the main loop holds the lock and is about to write
\* SPEAKING_TTS while a start_speech has arrived and waits for the event loop.
C29_Witness ==
    /\ lkPc["main"] = LkAt("w", "speak")
    /\ lkHolders = {"main"}
    /\ lkPc["h1"] = LkAt("cmd", "start_speech")
    /\ lkState = IDLE

\* C32 (as claimed): while the live transcriber is active the main loop can
\* take no line from the queue for synthesis and no TTS task can send a chunk.
C32_Claim ==
    tr_active => /\ ~ENABLED MainSpeak
                 /\ \A i \in 1..Len(ttsLive) : ~ENABLED TtsChunk(i)

\* C33 (as claimed): whenever the live transcriber is active the session
\* state is LISTENING_TO_USER.
C33_Claim == tr_active => state = LISTENING_TO_USER

\* C34 (as claimed): once start() has returned, the session, as long as it
\* is in game_sessions, has a main loop that is running.
C34_Claim ==
    (inSessions /\ \A c \in Conns : hpc[c] # "start") => mainPc \in {"sleep", "gen", "tts"}

\* C35 (as claimed): while a handler is in its receive loop, the mission id
\* has a transport registered, and the session the handler uses is the one in
\* game_sessions and has not been stopped.
C35_Claim ==
    \A w \in Ws :
      wpc[w] = "recv" => /\ active_connections # None
                         /\ game_sessions = wsess[w]
                         /\ sActive[wsess[w]]

\* C31: start() starts a loop only when the status it reads is stage2, never
\* for a mission that is absent, in stage1 or in stage2_failed, and a mission
\* stored with status stage2 has a non-empty dialogue prompt.
C31_Stage2Only ==
    \A m \in Missions :
      /\ msLoops[m] \subseteq {"stage2"}
      /\ msStatus[m] = "stage2" => Truthy(msPrompt[m])
      /\ msStatus[m] \in {"absent", "stage1", "stage2_failed"} => ~Truthy(msPrompt[m])

\* C31 witness: mission 1 got a loop after stage 2, mission 2 failed stage 2
\* and its two start() calls started none.
C31_Witness ==
    /\ msLoops[1] = {"stage2"}
    /\ msStatus[2] = "stage2_failed" /\ msStarts[2] = MaxStarts /\ msLoops[2] = {}

====
